---- MODULE Spec2Model ----
(***************************************************************************)
(* Adaptive quiz / learning-goal flow of the explAIner (sigilRag).         *)
(* State is Streamlit's st.session_state plus the objects held by          *)
(* ExplainerUI; every button handler ends in st.rerun(), which is the      *)
(* script run modelled by Render.                                          *)
(***************************************************************************)
EXTENDS Integers, Sequences, FiniteSets, TLC

\* ---------------------------------------------------------------- bounds
MaxLines == 2        \* lines in the learning-goals file
MaxStrLen == 2       \* characters of a typed answer
MaxBlanks == 2       \* blanks of a fill-in-the-blank question

\* ------------------------------------------------------------- encodings
\* Python None / a present value
None == <<>>
Some(x) == <<x>>

\* progress keys: the string 'goal_<n>' and the integer <n> are different keys
StrKey(n) == <<"str", n>>
IntKey(n) == <<"int", n>>

\* a dict as a set of <<key, value>> pairs with unique keys
DictHas(d, k) == \E p \in d : p[1] = k
DictGet(d, k, default) == IF DictHas(d, k) THEN (CHOOSE p \in d : p[1] = k)[2] ELSE default
DictPut(d, k, v) == {p \in d : p[1] # k} \cup {<<k, v>>}

VARIABLES
    goals_file,            \* lines of data/information/learning_goals.md
    learning_goals,        \* LearningGoalsManager.learning_goals
    openai_client,         \* QuizSystem.openai_client is set (API key found)
    page_mode,             \* st.session_state.page_mode
    current_goal_index,    \* st.session_state.current_goal_index
    learning_phase,        \* st.session_state.learning_phase
    quiz,                  \* st.session_state["quiz_<i>"], None when absent
    progress_present,      \* "learning_progress_<user>" in st.session_state
    progress,              \* st.session_state["learning_progress_<user>"]
    checkbox_state,        \* st.session_state["goal_checkbox_<id>"] set by code
    rerun,                 \* a script run is pending (st.rerun() / first load)
    gen_request,           \* arguments of the last question-generation call
    call,                  \* a direct call of a QuizSystem / manager method
    result                 \* what that call returned (or the states it left)

vars == <<goals_file, learning_goals, openai_client, page_mode,
          current_goal_index, learning_phase, quiz, progress_present,
          progress, checkbox_state, rerun, gen_request, call, result>>

\* ------------------------------------------------ learning goals manager
LineKinds == {"bullet", "other"}
GoalFiles == UNION {[1..n -> LineKinds] : n \in 1..MaxLines}

\* the text after "- " on line i of the file
LineText(i) == <<"line", i>>

RECURSIVE LoadFrom(_, _)
LoadFrom(lines, i) ==
    IF i > Len(lines) THEN <<>>
    ELSE IF lines[i] = "bullet"
         THEN <<[id |-> StrKey(i), number |-> i,
                 description |-> LineText(i)]>> \o LoadFrom(lines, i + 1)
         ELSE LoadFrom(lines, i + 1)

\* _load_learning_goals: enumerate(lines) numbers the goal by its LINE
LoadLearningGoals(lines) == LoadFrom(lines, 1)

\* get_user_progress: lazy all-False initialisation
InitialProgress(goals) == {<<goals[i].id, FALSE>> : i \in 1..Len(goals)}

\* variant: the call flips the stored flag
UpdateGoalProgress_Toggle(present, prog, goal_id, completed) ==
    DictPut(IF present THEN prog ELSE {}, goal_id,
            ~DictGet(IF present THEN prog ELSE {}, goal_id, ~completed))

\* update_goal_progress on the dict (absent dict starts empty)
UpdateGoalProgress(present, prog, goal_id, completed) ==
    DictPut(IF present THEN prog ELSE {}, goal_id, completed)

\* (_log_progress_update appends to an audit list that no modelled
\* operation reads; the list is not part of the state)

\* ------------------------------------------------------------ quiz system
\* a question dict: text, number of options, correct_answer index; a text
\* is a tuple of its parts
Question(text, nopts, correct) ==
    [question |-> text, nopts |-> nopts, correct_answer |-> correct]

\* _get_fallback_question: fixed shape, 4 options, correct_answer = 3
FallbackOptions == 4
FallbackCorrect == 3
FallbackText(description) == <<"main_goal", description>>
GetFallbackQuestion(goal) ==
    Question(FallbackText(goal.description), FallbackOptions, FallbackCorrect)

\* what the chat-completion call can produce: an exception, text that
\* json.loads rejects, or a JSON object (well-formed, correct index out of
\* range, or without options)
ServiceResponses ==
    { [kind |-> "raise",    body |-> Question(<<>>, 0, 0)],
      [kind |-> "bad_json", body |-> Question(<<>>, 0, 0)],
      [kind |-> "json",     body |-> Question(<<"population">>, 2, 1)],
      [kind |-> "json",     body |-> Question(<<"population">>, 2, 2)],
      [kind |-> "json",     body |-> Question(<<"other">>, 0, 0)] }

GenEnvs == [content : BOOLEAN, response : ServiceResponses]

\* variant: a reply that json.loads rejects is used as it came
GenerateAdaptiveQuizQuestion_TrustBadJson(goal, client, env) ==
    IF ~client THEN GetFallbackQuestion(goal)
    ELSE IF ~env.content THEN GetFallbackQuestion(goal)
    ELSE IF env.response.kind \in {"json", "bad_json"} THEN env.response.body
    ELSE GetFallbackQuestion(goal)

\* generate_adaptive_quiz_question
GenerateAdaptiveQuizQuestion(goal, client, env) ==
    IF ~client THEN GetFallbackQuestion(goal)
    ELSE IF ~env.content THEN GetFallbackQuestion(goal)
    ELSE IF env.response.kind = "json" THEN env.response.body
    ELSE GetFallbackQuestion(goal)

\* _evaluate_multiple_choice
EvaluateMultipleChoice(q, user_answer) ==
    [is_correct |-> (user_answer = q.correct_answer),
     correct_answer |-> q.correct_answer]

\* typed text: a sequence of characters
Alphabet == {" ", "a", "A"}
Strings == UNION {[1..n -> Alphabet] : n \in 0..MaxStrLen}

\* str.strip(): leading and trailing whitespace removed
RECURSIVE LStrip(_)
LStrip(s) ==
    IF s # <<>> /\ Head(s) = " " THEN LStrip(Tail(s)) ELSE s

RECURSIVE RStrip(_)
RStrip(s) ==
    IF s # <<>> /\ s[Len(s)] = " "
    THEN RStrip(SubSeq(s, 1, Len(s) - 1)) ELSE s

Strip(s) == RStrip(LStrip(s))

\* str.lower()
Lower(s) == [i \in 1..Len(s) |-> IF s[i] = "A" THEN "a" ELSE s[i]]

\* what the scoring chat-completion call can produce: an exception, text
\* that json.loads rejects, or a JSON evaluation
EvalResponses ==
    { [kind |-> "raise",    body |-> [is_correct |-> FALSE, score |-> 0]],
      [kind |-> "bad_json", body |-> [is_correct |-> FALSE, score |-> 0]],
      [kind |-> "json",     body |-> [is_correct |-> FALSE, score |-> 40]],
      [kind |-> "json",     body |-> [is_correct |-> TRUE, score |-> 90]] }

\* variant: a failed scoring call counts against the learner
EvaluateOpenEnded_FailClosed(question_data, user_answer, client, response) ==
    IF ~client \/ Strip(user_answer) = <<>>
    THEN [is_correct |-> FALSE, score |-> 0]
    ELSE IF response.kind = "json" THEN response.body
    ELSE [is_correct |-> FALSE, score |-> 0]

\* _evaluate_open_ended
EvaluateOpenEnded(question_data, user_answer, client, response) ==
    IF ~client \/ Strip(user_answer) = <<>>
    THEN [is_correct |-> FALSE, score |-> 0]
    ELSE IF response.kind = "json" THEN response.body
    ELSE [is_correct |-> TRUE, score |-> 75]

\* _evaluate_true_false
EvaluateTrueFalse(question_data, user_answer) ==
    [is_correct |-> (user_answer = question_data.correct_answer),
     correct_answer |-> question_data.correct_answer]

\* variant: answers compared as typed
Normalize_AsTyped(s) == s

\* user_ans.strip().lower()
Normalize(s) == Lower(Strip(s))

\* the blanks whose normalised answer equals the normalised expected one
Matches(user_answers, correct_answers) ==
    {i \in 1..Len(correct_answers) :
        Normalize(user_answers[i]) = Normalize(correct_answers[i])}

\* _evaluate_fill_blank; the score (correct_count / n) * 100 is kept as
\* the fraction num / den, and n = 0 divides by zero
EvaluateFillBlank(question_data, user_answers) ==
    LET correct_answers == question_data.correct_answers
        n == Len(correct_answers)
        correct_count ==
            Cardinality(Matches(user_answers, correct_answers))
    IN IF Len(user_answers) # n
       THEN [is_correct |-> FALSE, correct_answers |-> correct_answers]
       ELSE IF n = 0
       THEN [raised |-> "ZeroDivisionError"]
       ELSE [is_correct |-> (correct_count = n),
             correct_answers |-> correct_answers,
             score |-> [num |-> correct_count * 100, den |-> n]]

\* question_data.get("question_type", "multiple_choice")
QuestionType(question_data) ==
    IF "question_type" \in DOMAIN question_data
    THEN question_data.question_type ELSE "multiple_choice"

\* evaluate_answer
EvaluateAnswer(question_data, user_answer, client, response) ==
    CASE QuestionType(question_data) = "multiple_choice" ->
            EvaluateMultipleChoice(question_data, user_answer)
      [] QuestionType(question_data) = "open_ended" ->
            EvaluateOpenEnded(question_data, user_answer, client, response)
      [] QuestionType(question_data) = "true_false" ->
            EvaluateTrueFalse(question_data, user_answer)
      [] QuestionType(question_data) = "fill_blank" ->
            EvaluateFillBlank(question_data, user_answer)
      [] OTHER -> [is_correct |-> FALSE]

\* ---------------------------------------------------------------- quiz UI
\* the dict created by render_quiz_interface for a goal index
FreshQuiz ==
    [current_question |-> None, answered |-> FALSE, feedback |-> None,
     attempts |-> 0, correct_answers |-> 0, asked_questions |-> <<>>,
     difficulty_level |-> "medium", medium_questions_asked |-> 0,
     medium_questions_correct |-> 0, advancement_phase |-> "initial",
     question_subjects |-> <<>>, can_retry |-> FALSE,
     session_complete |-> FALSE]

\* _get_question_hash: digest of question text + str(options)
GetQuestionHash(q) == <<q.question, q.nopts>>

\* _extract_question_subject: keyword table, "general" when nothing matches
ExtractQuestionSubject(q) ==
    IF q.question = <<"population">> THEN "population_frame" ELSE "general"

InSeq(x, s) == \E i \in 1..Len(s) : s[i] = x

\* variant: only the newest fingerprint is kept
TrackQuestion_KeepLast(qs, q) ==
    [qs EXCEPT
        !.current_question = Some(q),
        !.asked_questions = <<GetQuestionHash(q)>>,
        !.question_subjects =
            IF InSeq(ExtractQuestionSubject(q), @) THEN @
            ELSE Append(@, ExtractQuestionSubject(q))]

\* _generate_adaptive_question: the question is tracked and returned
TrackQuestion(qs, q) ==
    [qs EXCEPT
        !.current_question = Some(q),
        !.asked_questions = Append(@, GetQuestionHash(q)),
        !.question_subjects =
            IF InSeq(ExtractQuestionSubject(q), @) THEN @
            ELSE Append(@, ExtractQuestionSubject(q))]

\* variant: the threshold taken as two thirds rounded up
RateOK_Strict(correct, asked) == 100 * correct >= 67 * asked

\* success_rate >= 0.66 with success_rate = correct / asked
RateOK(correct, asked) == 100 * correct >= 66 * asked

\* the three outcomes of a finished round
ToReady(qs) ==
    [qs EXCEPT !.advancement_phase = "ready_to_advance",
               !.session_complete = TRUE]

\* variant: the second round starts without resetting the asked counter
ToSecondRound_KeepAsked(qs) ==
    [qs EXCEPT !.advancement_phase = "second_round",
               !.medium_questions_correct = 0]

ToSecondRound(qs) ==
    [qs EXCEPT !.advancement_phase = "second_round",
               !.medium_questions_asked = 0,
               !.medium_questions_correct = 0]

\* variant: a failed second round starts another round
ToRecommendTraining_ThirdRound(qs) ==
    [qs EXCEPT !.advancement_phase = "second_round",
               !.medium_questions_asked = 0,
               !.medium_questions_correct = 0]

ToRecommendTraining(qs) ==
    [qs EXCEPT !.advancement_phase = "recommend_training",
               !.session_complete = TRUE]

\* variant: a round is evaluated after two answers
RoundDone_Two(qs, phase) ==
    qs.advancement_phase = phase /\ qs.medium_questions_asked >= 2

\* the round of the given phase has its three answers
RoundDone(qs, phase) ==
    qs.advancement_phase = phase /\ qs.medium_questions_asked >= 3
RoundPassed(qs) ==
    RateOK(qs.medium_questions_correct, qs.medium_questions_asked)

\* variant: the second round is evaluated only after a fourth answer
CheckAdvancementLogic_LateSecond(qs) ==
    IF RoundDone(qs, "initial")
    THEN IF RoundPassed(qs) THEN ToReady(qs) ELSE ToSecondRound(qs)
    ELSE IF qs.advancement_phase = "second_round"
            /\ qs.medium_questions_asked > 3
    THEN IF RoundPassed(qs) THEN ToReady(qs) ELSE ToRecommendTraining(qs)
    ELSE qs

\* variant: entering the second round resets only the asked counter
CheckAdvancementLogic_KeepCorrect(qs) ==
    IF RoundDone(qs, "initial")
    THEN IF RoundPassed(qs) THEN ToReady(qs)
         ELSE [qs EXCEPT !.advancement_phase = "second_round",
                         !.medium_questions_asked = 0]
    ELSE IF RoundDone(qs, "second_round")
    THEN IF RoundPassed(qs) THEN ToReady(qs) ELSE ToRecommendTraining(qs)
    ELSE qs

\* variant: session_complete is set at the end of every round
CheckAdvancementLogic_CompleteEarly(qs) ==
    IF RoundDone(qs, "initial")
    THEN IF RoundPassed(qs) THEN ToReady(qs)
         ELSE [ToSecondRound(qs) EXCEPT !.session_complete = TRUE]
    ELSE IF RoundDone(qs, "second_round")
    THEN IF RoundPassed(qs) THEN ToReady(qs) ELSE ToRecommendTraining(qs)
    ELSE qs

\* variant: a failed second round starts over from the initial phase
CheckAdvancementLogic_StartOver(qs) ==
    IF RoundDone(qs, "initial")
    THEN IF RoundPassed(qs) THEN ToReady(qs) ELSE ToSecondRound(qs)
    ELSE IF RoundDone(qs, "second_round")
    THEN IF RoundPassed(qs) THEN ToReady(qs)
         ELSE [qs EXCEPT !.advancement_phase = "initial",
                         !.medium_questions_asked = 0,
                         !.medium_questions_correct = 0]
    ELSE qs

\* _check_advancement_logic
CheckAdvancementLogic(qs) ==
    IF RoundDone(qs, "initial")
    THEN IF RoundPassed(qs) THEN ToReady(qs) ELSE ToSecondRound(qs)
    ELSE IF RoundDone(qs, "second_round")
    THEN IF RoundPassed(qs) THEN ToReady(qs) ELSE ToRecommendTraining(qs)
    ELSE qs

\* variant: a retry of an answered question is not counted
Evaluated_FirstOnly(qs, fb, can_retry) ==
    LET ic == fb.is_correct
        medium == (qs.difficulty_level = "medium")
        first == ~qs.answered
    IN [qs EXCEPT
          !.answered = TRUE,
          !.feedback = Some(fb),
          !.attempts = IF first THEN @ + 1 ELSE @,
          !.correct_answers = IF ic THEN @ + 1 ELSE @,
          !.medium_questions_asked = IF medium /\ first THEN @ + 1 ELSE @,
          !.medium_questions_correct = IF medium /\ ic THEN @ + 1 ELSE @,
          !.can_retry = can_retry]

\* _submit_answer, the "Update quiz state" block: counters, feedback and
\* the retry permission
Evaluated(qs, fb, can_retry) ==
    LET ic == fb.is_correct
        medium == (qs.difficulty_level = "medium")
    IN [qs EXCEPT
          !.answered = TRUE,
          !.feedback = Some(fb),
          !.attempts = @ + 1,
          !.correct_answers = IF ic THEN @ + 1 ELSE @,
          !.medium_questions_asked = IF medium THEN @ + 1 ELSE @,
          !.medium_questions_correct = IF medium /\ ic THEN @ + 1 ELSE @,
          !.can_retry = can_retry]

\* variant: no retry permission is ever granted
SubmitAnswerState_NoRetry(qs, user_answer) ==
    IF qs.current_question = None THEN qs
    ELSE LET fb == EvaluateMultipleChoice(qs.current_question[1], user_answer)
         IN CheckAdvancementLogic(Evaluated(qs, fb, FALSE))

\* variant: the retry permission is granted after every answer
SubmitAnswerState_RetryAlways(qs, user_answer) ==
    IF qs.current_question = None THEN qs
    ELSE LET fb == EvaluateMultipleChoice(qs.current_question[1], user_answer)
         IN CheckAdvancementLogic(Evaluated(qs, fb, TRUE))

\* _submit_answer on the quiz dict (the retry path first clears
\* answered/feedback, which the submission then overwrites)
SubmitAnswerState(qs, user_answer) ==
    IF qs.current_question = None THEN qs
    ELSE LET fb == EvaluateMultipleChoice(qs.current_question[1], user_answer)
         IN CheckAdvancementLogic(Evaluated(qs, fb, ~fb.is_correct))

\* variant: the submit button is drawn without looking at session_complete
SubmitEnabled_IgnoreComplete(qs) ==
    /\ qs.current_question # None
    /\ qs.current_question[1].nopts > 0
    /\ ~(qs.answered /\ ~qs.can_retry)

\* _render_multiple_choice: the submit button is shown and enabled
SubmitEnabled(qs) ==
    /\ ~qs.session_complete
    /\ qs.current_question # None
    /\ qs.current_question[1].nopts > 0
    /\ ~(qs.answered /\ ~qs.can_retry)

\* render_quiz_interface: the post-feedback buttons are shown
PostFeedbackShown(qs) ==
    /\ ~qs.session_complete
    /\ qs.answered
    /\ qs.feedback # None

\* ------------------------------------------------------------- state space
NumGoals == Len(learning_goals)

\* files by the number of goals they define
FilesWithGoals(counts) ==
    {f \in GoalFiles : Len(LoadLearningGoals(f)) \in counts}

\* state before the first script run, for a set of goal files and of
\* API-key situations
InitWith(files, clients) ==
    /\ goals_file \in files
    /\ learning_goals = LoadLearningGoals(goals_file)
    /\ openai_client \in clients
    /\ page_mode = "checklist"
    /\ current_goal_index = 0
    /\ learning_phase = "information"
    /\ quiz = [g \in 0..(Len(LoadLearningGoals(goals_file)) - 1) |-> None]
    /\ progress_present = FALSE
    /\ progress = {}
    /\ checkbox_state = {}
    /\ rerun = TRUE
    /\ gen_request = None
    /\ call = None
    /\ result = None

\* a course of at most one goal, with or without an API key
Init == InitWith(FilesWithGoals({0, 1}), BOOLEAN)

\* a course of two goals, no API key (every question is the fallback)
InitFlow == InitWith(FilesWithGoals({2}), {FALSE})

\* the learning-flow page shows a goal (otherwise only an error is drawn)
FlowPageShown ==
    /\ ~rerun
    /\ page_mode = "learning_flow"
    /\ NumGoals > 0
    /\ current_goal_index < NumGoals

\* the quiz interface of the active goal is on screen
QuizShown ==
    /\ FlowPageShown
    /\ learning_phase = "train"
    /\ quiz[current_goal_index] # None

QS == quiz[current_goal_index][1]

unchangedConfig ==
    UNCHANGED <<goals_file, learning_goals, openai_client, call, result>>
unchangedNav == UNCHANGED <<page_mode, current_goal_index, learning_phase>>
unchangedStore ==
    UNCHANGED <<progress_present, progress, checkbox_state>>

\* _generate_adaptive_question: what it passes to the generator
GenerationRequest(g, qs) ==
    [goal_index |-> g, difficulty_level |-> qs.difficulty_level,
     asked_questions |-> qs.asked_questions,
     subjects_covered |-> qs.question_subjects]

\* render_quiz_interface, state-changing part: create the quiz dict, and
\* generate a question when the session is not complete and has none
RenderQuizInterface(g) ==
    LET qs0 == IF quiz[g] = None THEN FreshQuiz ELSE quiz[g][1]
    IN IF ~qs0.session_complete /\ qs0.current_question = None
       THEN /\ gen_request' = Some(GenerationRequest(g, qs0))
            /\ \E env \in GenEnvs :
                 quiz' = [quiz EXCEPT ![g] = Some(TrackQuestion(qs0,
                     GenerateAdaptiveQuizQuestion(learning_goals[g + 1],
                                                  openai_client, env)))]
       ELSE /\ quiz' = [quiz EXCEPT ![g] = Some(qs0)]
            /\ UNCHANGED gen_request

\* one script run: render_main_page
Render ==
    /\ rerun
    /\ rerun' = FALSE
    /\ unchangedConfig /\ unchangedNav
    /\ UNCHANGED checkbox_state
    /\ IF page_mode = "checklist"
       THEN /\ UNCHANGED <<quiz, gen_request>>
            /\ IF NumGoals > 0 /\ ~progress_present
               THEN /\ progress_present' = TRUE
                    /\ progress' = InitialProgress(learning_goals)
               ELSE UNCHANGED <<progress_present, progress>>
       ELSE /\ UNCHANGED <<progress_present, progress>>
            /\ IF NumGoals > 0 /\ current_goal_index < NumGoals
                  /\ learning_phase = "train"
               THEN RenderQuizInterface(current_goal_index)
               ELSE UNCHANGED <<quiz, gen_request>>

\* ------------------------------------------------------ checklist page
\* checkbox of a goal clicked: update_goal_progress(user, goal['id'], new)
ToggleGoal ==
    /\ ~rerun /\ page_mode = "checklist" /\ NumGoals > 0
    /\ \E i \in 1..NumGoals :
         LET goal_id == learning_goals[i].id
             new_status == ~DictGet(progress, goal_id, FALSE)
         IN progress' = UpdateGoalProgress(progress_present, progress,
                                           goal_id, new_status)
    /\ progress_present' = TRUE
    /\ rerun' = TRUE
    /\ UNCHANGED gen_request
    /\ unchangedConfig /\ unchangedNav
    /\ UNCHANGED <<quiz, checkbox_state>>

\* "Start Learning Experience"
StartLearning ==
    /\ ~rerun /\ page_mode = "checklist"
    /\ page_mode' = "learning_flow"
    /\ current_goal_index' = 0
    /\ learning_phase' = "information"
    /\ rerun' = TRUE
    /\ UNCHANGED gen_request
    /\ unchangedConfig /\ unchangedStore /\ UNCHANGED quiz

\* --------------------------------------------------- learning-flow page
\* "Back" in the page header
BackToChecklist ==
    /\ FlowPageShown
    /\ page_mode' = "checklist"
    /\ rerun' = TRUE
    /\ UNCHANGED gen_request
    /\ unchangedConfig /\ unchangedStore
    /\ UNCHANGED <<quiz, current_goal_index, learning_phase>>

\* "Continue to Training"
ToTraining ==
    /\ FlowPageShown /\ learning_phase = "information"
    /\ learning_phase' = "train"
    /\ rerun' = TRUE
    /\ UNCHANGED gen_request
    /\ unchangedConfig /\ unchangedStore
    /\ UNCHANGED <<quiz, page_mode, current_goal_index>>

\* effect shared by the buttons that return to the information phase
GoToInformation ==
    /\ learning_phase' = "information"
    /\ rerun' = TRUE
    /\ UNCHANGED gen_request
    /\ unchangedConfig /\ unchangedStore
    /\ UNCHANGED <<quiz, page_mode, current_goal_index>>

\* variant: moving on also marks the goal that is left as completed
GoToNextGoal_Marking ==
    /\ current_goal_index' = current_goal_index + 1
    /\ learning_phase' = "information"
    /\ progress' = UpdateGoalProgress(progress_present, progress,
            learning_goals[current_goal_index + 1].id, TRUE)
    /\ progress_present' = TRUE
    /\ rerun' = TRUE
    /\ UNCHANGED gen_request
    /\ unchangedConfig
    /\ UNCHANGED <<quiz, page_mode, checkbox_state>>

\* effect of the "Next Learning Goal" buttons
GoToNextGoal ==
    /\ current_goal_index' = current_goal_index + 1
    /\ learning_phase' = "information"
    /\ rerun' = TRUE
    /\ UNCHANGED gen_request
    /\ unchangedConfig /\ unchangedStore
    /\ UNCHANGED <<quiz, page_mode>>

\* effect of the "Complete" buttons
GoToChecklist ==
    /\ page_mode' = "checklist"
    /\ rerun' = TRUE
    /\ UNCHANGED gen_request
    /\ unchangedConfig /\ unchangedStore
    /\ UNCHANGED <<quiz, current_goal_index, learning_phase>>

\* navigation row below the quiz in _render_training_phase
BackToInfoFromTraining ==
    /\ FlowPageShown /\ learning_phase = "train"
    /\ GoToInformation

\* variant: the button is offered on the last goal as well
NextGoalFromTraining_Unguarded ==
    /\ FlowPageShown /\ learning_phase = "train"
    /\ GoToNextGoal

NextGoalFromTraining ==
    /\ FlowPageShown /\ learning_phase = "train"
    /\ current_goal_index + 1 < NumGoals
    /\ GoToNextGoal

CompleteFromTraining ==
    /\ FlowPageShown /\ learning_phase = "train"
    /\ ~(current_goal_index + 1 < NumGoals)
    /\ GoToChecklist

\* ----------------------------------------------------------- quiz actions
\* submit button ("Submit Answer" / "Try Again") with a radio selection
SubmitAnswer ==
    /\ QuizShown /\ SubmitEnabled(QS)
    /\ \E user_answer \in 0..(QS.current_question[1].nopts - 1) :
         quiz' = [quiz EXCEPT ![current_goal_index] =
                      Some(SubmitAnswerState(QS, user_answer))]
    /\ rerun' = TRUE
    /\ UNCHANGED gen_request
    /\ unchangedConfig /\ unchangedNav /\ unchangedStore

\* variant: "New Question" also starts the attempt count over
NewQuestionState_ResetAttempts(qs) ==
    [qs EXCEPT !.current_question = None, !.answered = FALSE,
               !.feedback = None, !.attempts = 0]

\* the dict after "New Question"
NewQuestionState(qs) ==
    [qs EXCEPT !.current_question = None, !.answered = FALSE,
               !.feedback = None]

NewQuestion ==
    /\ QuizShown /\ PostFeedbackShown(QS)
    /\ quiz' = [quiz EXCEPT ![current_goal_index] = Some(NewQuestionState(QS))]
    /\ rerun' = TRUE
    /\ UNCHANGED gen_request
    /\ unchangedConfig /\ unchangedNav /\ unchangedStore

\* "Read Again"
ReadAgain ==
    /\ QuizShown /\ PostFeedbackShown(QS)
    /\ GoToInformation

\* "Next Learning Goal" after feedback
NextGoalAfterFeedback ==
    /\ QuizShown /\ PostFeedbackShown(QS)
    /\ current_goal_index + 1 < NumGoals
    /\ GoToNextGoal

\* "Complete" after feedback
CompleteAfterFeedback ==
    /\ QuizShown /\ PostFeedbackShown(QS)
    /\ ~(current_goal_index + 1 < NumGoals)
    /\ GoToChecklist

\* _mark_goal_as_complete: the key handed to update_goal_progress
MarkedGoalId(goal_index) == IntKey(goal_index + 1)

\* _advance_to_next_goal(current_goal_index)
AdvanceToNextGoal ==
    /\ LET goal_id == MarkedGoalId(current_goal_index)
       IN /\ progress' = UpdateGoalProgress(progress_present, progress,
                                            goal_id, TRUE)
          /\ checkbox_state' = checkbox_state \cup {goal_id}
    /\ progress_present' = TRUE
    /\ IF current_goal_index + 1 < NumGoals
       THEN /\ current_goal_index' = current_goal_index + 1
            /\ learning_phase' = "information"
            /\ UNCHANGED page_mode
       ELSE /\ page_mode' = "checklist"
            /\ UNCHANGED <<current_goal_index, learning_phase>>
    /\ rerun' = TRUE
    /\ UNCHANGED gen_request
    /\ unchangedConfig /\ UNCHANGED quiz

\* _render_advancement_decision: "Continue to Next Learning Goal"
ConfirmAdvance ==
    /\ QuizShown /\ QS.session_complete
    /\ QS.advancement_phase = "ready_to_advance"
    /\ AdvanceToNextGoal

\* _render_advancement_decision: "Continue Anyway"
ContinueAnyway ==
    /\ QuizShown /\ QS.session_complete
    /\ QS.advancement_phase = "recommend_training"
    /\ AdvanceToNextGoal

\* _render_advancement_decision: "Review Learning Material"
ReviewMaterial ==
    /\ QuizShown /\ QS.session_complete
    /\ QS.advancement_phase = "recommend_training"
    /\ GoToInformation

\* a learner who never uses "Try Again": every submission is a first answer
FirstSubmit ==
    /\ QuizShown /\ ~QS.answered
    /\ SubmitAnswer

NextCommon ==
    \/ Render
    \/ ToggleGoal
    \/ StartLearning
    \/ BackToChecklist
    \/ ToTraining
    \/ BackToInfoFromTraining
    \/ CompleteFromTraining
    \/ NewQuestion
    \/ ReadAgain
    \/ CompleteAfterFeedback
    \/ ConfirmAdvance
    \/ ContinueAnyway
    \/ ReviewMaterial

\* the quiz in full (retries, every service outcome) on a one-goal course
Next ==
    \/ NextCommon
    \/ SubmitAnswer

Spec == Init /\ [][Next]_vars

\* navigation between two goals
NextFlow ==
    \/ NextCommon
    \/ FirstSubmit
    \/ NextGoalFromTraining
    \/ NextGoalAfterFeedback

SpecFlow == InitFlow /\ [][NextFlow]_vars

\* ----------------------------------------------------------- direct calls
\* the methods of QuizSystem and LearningGoalsManager called on their own,
\* with the arguments and the service behaviour drawn from bounded sets
SeqsUpTo(S, n) == UNION {[1..k -> S] : k \in 0..n}
Somes(S) == {Some(x) : x \in S}

GenerateCalls(goals) ==
    {[fn |-> "generate_adaptive_quiz_question", goal_index |-> g, env |-> e] :
        g \in 0..(Len(goals) - 1), e \in GenEnvs}

EvaluateCalls(questions, answers, responses) ==
    {[fn |-> "evaluate_answer", question_data |-> q, user_answer |-> a,
      response |-> r] : q \in questions, a \in answers, r \in responses}

UpdateCalls(goal_ids) ==
    {[fn |-> "update_goal_progress", goal_id |-> k, completed |-> b] :
        k \in goal_ids, b \in BOOLEAN}

\* question dicts of each type
ChoiceQuestions ==
    {r.body : r \in ServiceResponses}
        \cup {GetFallbackQuestion([description |-> LineText(1)])}
OpenQuestions == {[question_type |-> "open_ended"]}
TrueFalseQuestions ==
    {[question_type |-> "true_false", correct_answer |-> b] : b \in BOOLEAN}
CorrectWords == {<<"a">>, <<"A", " ">>}
FillBlankQuestions ==
    {[question_type |-> "fill_blank", correct_answers |-> c] :
        c \in SeqsUpTo(CorrectWords, MaxBlanks)}
OtherQuestions == {[question_type |-> "essay"]}

\* the scoring service is only reached for open-ended questions
NoService == {r \in EvalResponses : r.kind = "raise"}

\* goal ids passed by the callers: goal['id'] and the integer index + 1
CallerGoalIds(goals) ==
    {goals[i].id : i \in 1..Len(goals)} \cup {IntKey(1)}

\* progress dicts over a set of keys
ProgressDicts(keys) ==
    {d \in SUBSET (keys \X BOOLEAN) :
        \A p \in d, q \in d : p[1] = q[1] => p = q}

\* the application state around a direct call
CallState(file, client) ==
    /\ goals_file = file
    /\ learning_goals = LoadLearningGoals(file)
    /\ openai_client = client
    /\ page_mode = "checklist"
    /\ current_goal_index = 0
    /\ learning_phase = "information"
    /\ quiz = [g \in 0..(Len(LoadLearningGoals(file)) - 1) |-> None]
    /\ checkbox_state = {}
    /\ rerun = FALSE
    /\ gen_request = None
    /\ result = None

NoProgress == progress_present = FALSE /\ progress = {}

InitGenerate ==
    \E file \in FilesWithGoals(1..MaxLines), client \in BOOLEAN :
        /\ CallState(file, client)
        /\ NoProgress
        /\ call \in Somes(GenerateCalls(LoadLearningGoals(file)))

InitEvaluate ==
    \E client \in BOOLEAN :
        /\ CallState(<<"bullet">>, client)
        /\ NoProgress
        /\ \/ call \in Somes(EvaluateCalls(OpenQuestions, Strings,
                                            EvalResponses))
           \/ /\ ~client
              /\ \/ call \in Somes(EvaluateCalls(ChoiceQuestions, 0..3,
                                                  NoService))
                 \/ call \in Somes(EvaluateCalls(TrueFalseQuestions, BOOLEAN,
                                                  NoService))
                 \/ call \in Somes(EvaluateCalls(FillBlankQuestions,
                                       SeqsUpTo(Strings, MaxBlanks), NoService))
                 \/ call \in Somes(EvaluateCalls(OtherQuestions, {<<>>},
                                                  NoService))

InitUpdate ==
    \E file \in FilesWithGoals(1..MaxLines) :
        /\ CallState(file, FALSE)
        /\ call \in Somes(UpdateCalls(CallerGoalIds(LoadLearningGoals(file))))
        /\ \/ NoProgress
           \/ /\ progress_present = TRUE
              /\ progress \in
                    ProgressDicts(CallerGoalIds(LoadLearningGoals(file)))

\* quiz dicts whose current question is a fill-in-the-blank question
FillBlankSessions ==
    {[FreshQuiz EXCEPT !.current_question = Some(q), !.attempts = m,
                       !.medium_questions_asked = m] :
        q \in FillBlankQuestions, m \in 0..2}

SubmitCalls ==
    {[fn |-> "_submit_answer", quiz_state |-> qs, user_answer |-> a,
      response |-> r] :
        qs \in FillBlankSessions, a \in SeqsUpTo(CorrectWords, MaxBlanks),
        r \in NoService}

InitSubmit ==
    /\ CallState(<<"bullet">>, FALSE)
    /\ NoProgress
    /\ call \in Somes(SubmitCalls)

InitCalls == InitGenerate \/ InitEvaluate \/ InitUpdate \/ InitSubmit

unchangedApp ==
    /\ unchangedNav
    /\ UNCHANGED <<goals_file, learning_goals, openai_client, quiz,
                   checkbox_state, rerun, gen_request, call>>

\* QuizSystem.generate_adaptive_quiz_question(goal, goal_index, ...)
CallGenerate ==
    /\ call # None /\ call[1].fn = "generate_adaptive_quiz_question"
    /\ result = None
    /\ result' = Some(GenerateAdaptiveQuizQuestion(
                      learning_goals[call[1].goal_index + 1], openai_client,
                      call[1].env))
    /\ unchangedApp
    /\ UNCHANGED <<progress_present, progress>>

\* QuizSystem.evaluate_answer(question_data, user_answer)
CallEvaluate ==
    /\ call # None /\ call[1].fn = "evaluate_answer"
    /\ result = None
    /\ result' = Some(EvaluateAnswer(call[1].question_data,
                      call[1].user_answer, openai_client, call[1].response))
    /\ unchangedApp
    /\ UNCHANGED <<progress_present, progress>>

\* LearningGoalsManager.update_goal_progress(user, goal_id, completed),
\* called a first and a second time; result keeps the dict after each call
CallUpdateGoalProgress ==
    /\ call # None /\ call[1].fn = "update_goal_progress"
    /\ Len(result) < 2
    /\ progress' = UpdateGoalProgress(progress_present, progress,
                                      call[1].goal_id, call[1].completed)
    /\ progress_present' = TRUE
    /\ result' = Append(result, progress')
    /\ unchangedApp

\* _submit_answer on a quiz dict, for a question of any type: an exception
\* of the evaluation leaves the method before the dict is touched
SubmitAnswerCall(qs, user_answer, client, response) ==
    IF qs.current_question = None THEN qs
    ELSE LET fb == EvaluateAnswer(qs.current_question[1], user_answer,
                                  client, response)
         IN IF "raised" \in DOMAIN fb THEN fb
            ELSE CheckAdvancementLogic(Evaluated(qs, fb, ~fb.is_correct))

\* QuizUI._submit_answer(quiz_key, user_answer)
CallSubmitAnswer ==
    /\ call # None /\ call[1].fn = "_submit_answer"
    /\ result = None
    /\ result' = Some(SubmitAnswerCall(call[1].quiz_state,
                      call[1].user_answer, openai_client, call[1].response))
    /\ unchangedApp
    /\ UNCHANGED <<progress_present, progress>>

NextCalls ==
    \/ CallGenerate
    \/ CallEvaluate
    \/ CallUpdateGoalProgress
    \/ CallSubmitAnswer

SpecCalls == InitCalls /\ [][NextCalls]_vars

\* ------------------------------------------------------------- properties
Sessions == {g \in DOMAIN quiz : quiz[g] # None}
Q(g) == quiz[g][1]

\* the step is an evaluated answer submission in the session of goal g
Submitted(g) ==
    /\ quiz[g] # None /\ quiz'[g] # None
    /\ quiz'[g][1].attempts = quiz[g][1].attempts + 1

\* the feedback stored by the step says "correct"
CorrectAfter(g) == quiz'[g][1].feedback[1].is_correct

\* C1: from phase initial, the submission that brings the medium counter to
\* 3 leads to ready_to_advance with session_complete when at least 2 of the
\* 3 answers were correct, and otherwise to second_round with both medium
\* counters back at 0 and session_complete still false.
C1_InitialRound ==
    [][\A g \in DOMAIN quiz :
        (Submitted(g) /\ Q(g).advancement_phase = "initial"
                      /\ Q(g).medium_questions_asked = 2)
        => LET correct == Q(g).medium_questions_correct
                          + (IF CorrectAfter(g) THEN 1 ELSE 0)
               post == quiz'[g][1]
           IN IF correct >= 2
              THEN /\ post.advancement_phase = "ready_to_advance"
                   /\ post.session_complete
              ELSE /\ post.advancement_phase = "second_round"
                   /\ post.medium_questions_asked = 0
                   /\ post.medium_questions_correct = 0
                   /\ ~post.session_complete]_vars

C1_Witness ==
    \E g \in Sessions :
        /\ Q(g).advancement_phase = "second_round"
        /\ Q(g).attempts = 3
        /\ Q(g).medium_questions_asked = 0

\* C2: from phase second_round, the submission that brings the medium
\* counter (counted from the reset) to 3 leads to ready_to_advance when at
\* least 2 of the 3 answers of this round were correct and to
\* recommend_training otherwise; session_complete is true in both cases.
C2_SecondRound ==
    [][\A g \in DOMAIN quiz :
        (Submitted(g) /\ Q(g).advancement_phase = "second_round"
                      /\ Q(g).medium_questions_asked = 2)
        => LET correct == Q(g).medium_questions_correct
                          + (IF CorrectAfter(g) THEN 1 ELSE 0)
               post == quiz'[g][1]
           IN /\ post.session_complete
              /\ post.advancement_phase =
                    IF correct >= 2 THEN "ready_to_advance"
                    ELSE "recommend_training"]_vars

C2_Witness ==
    \E g \in Sessions :
        /\ Q(g).advancement_phase = "recommend_training"
        /\ Q(g).session_complete
        /\ Q(g).medium_questions_asked = 3

\* C3: once a session has session_complete = true, no step changes it any
\* more: no submission, retry or generation is accepted, and its phase,
\* counters, asked fingerprints and session_complete stay as they are.
C3_CompleteIsFrozen ==
    [][\A g \in DOMAIN quiz :
        (quiz[g] # None /\ Q(g).session_complete) => quiz'[g] = quiz[g]]_vars

C3_Witness ==
    \E g \in Sessions :
        /\ Q(g).session_complete
        /\ Q(g).can_retry
        /\ ~rerun
        /\ page_mode = "learning_flow"
        /\ learning_phase = "train"
        /\ current_goal_index = g

\* C4: in every reachable state correct_answers <= attempts and
\* medium_questions_correct <= medium_questions_asked.
C4_CountersOrdered ==
    \A g \in Sessions :
        /\ Q(g).correct_answers <= Q(g).attempts
        /\ Q(g).medium_questions_correct <= Q(g).medium_questions_asked

C4_Witness ==
    \E g \in Sessions :
        /\ Q(g).advancement_phase = "second_round"
        /\ Q(g).medium_questions_asked = 0
        /\ Q(g).correct_answers = 1

\* C5: session_complete = true implies the phase is ready_to_advance or
\* recommend_training.
C5_CompleteIsTerminal ==
    \A g \in Sessions :
        Q(g).session_complete =>
            Q(g).advancement_phase \in {"ready_to_advance", "recommend_training"}

C5_Witness ==
    \E g \in Sessions :
        /\ Q(g).session_complete
        /\ Q(g).advancement_phase = "ready_to_advance"
        /\ Q(g).attempts = 3

\* C6: the phase only moves forward: the only phase changes are
\* initial -> ready_to_advance, initial -> second_round,
\* second_round -> ready_to_advance and second_round -> recommend_training.
ForwardMoves ==
    { <<"initial", "ready_to_advance">>, <<"initial", "second_round">>,
      <<"second_round", "ready_to_advance">>,
      <<"second_round", "recommend_training">> }

C6_PhaseForward ==
    [][\A g \in DOMAIN quiz :
        /\ (quiz[g] # None) => (quiz'[g] # None)
        /\ (quiz[g] # None
              /\ quiz'[g][1].advancement_phase # Q(g).advancement_phase)
           => <<Q(g).advancement_phase, quiz'[g][1].advancement_phase>>
                  \in ForwardMoves]_vars

C6_Witness ==
    \E g \in Sessions :
        /\ Q(g).advancement_phase = "ready_to_advance"
        /\ Q(g).attempts = 6

\* C7 as stated: after every evaluated submission can_retry = ~is_correct
\* and the question is unchanged, and after an incorrect answer the submit
\* control stays enabled.
C7_Original ==
    [][\A g \in DOMAIN quiz :
        Submitted(g) =>
            /\ quiz'[g][1].can_retry = ~CorrectAfter(g)
            /\ quiz'[g][1].current_question = Q(g).current_question
            /\ (~CorrectAfter(g) => SubmitEnabled(quiz'[g][1]))]_vars

\* C7 (amended): after every evaluated submission can_retry = ~is_correct
\* and the question is unchanged; after an incorrect answer that does not
\* complete the session the submit control stays enabled, after one that
\* completes the session it is not offered.
C7_RetryGating ==
    [][\A g \in DOMAIN quiz :
        Submitted(g) =>
            /\ quiz'[g][1].can_retry = ~CorrectAfter(g)
            /\ quiz'[g][1].current_question = Q(g).current_question
            /\ (~CorrectAfter(g) =>
                  (SubmitEnabled(quiz'[g][1]) <=> ~quiz'[g][1].session_complete))]_vars

C7_Witness ==
    \E g \in Sessions :
        /\ Q(g).answered /\ Q(g).can_retry
        /\ ~Q(g).feedback[1].is_correct
        /\ Q(g).attempts = 2
        /\ Len(Q(g).asked_questions) = 1
        /\ SubmitEnabled(Q(g))

\* C8: after a correct answer no further submission is accepted for that
\* question: from such a state the session changes only by the new-question
\* request, which empties current_question, and a submission needs a
\* current_question generated after it.
AnsweredCorrectly(g) ==
    /\ quiz[g] # None
    /\ Q(g).answered
    /\ Q(g).feedback # None
    /\ Q(g).feedback[1].is_correct

C8_CorrectLocks ==
    [][\A g \in DOMAIN quiz :
        /\ Submitted(g) => (Q(g).current_question # None /\ ~AnsweredCorrectly(g))
        /\ (AnsweredCorrectly(g) /\ quiz'[g] # quiz[g])
           => /\ quiz'[g][1].current_question = None
              /\ ~quiz'[g][1].answered
              /\ quiz'[g][1].attempts = Q(g).attempts]_vars

C8_Witness ==
    \E g \in Sessions :
        /\ Q(g).attempts = 2
        /\ Q(g).correct_answers = 2
        /\ Len(Q(g).asked_questions) = 2
        /\ Q(g).answered

\* the step is the advancement action (confirmed, or "continue anyway")
Advanced == ConfirmAdvance \/ ContinueAnyway

\* the id under which the active goal was loaded
ActiveGoalId == learning_goals[current_goal_index + 1].id

\* C9: the advancement action on the goal at index k leaves the progress
\* entry for that goal's id set to true.
C9_AdvanceMarksGoal ==
    [][Advanced => DictGet(progress', ActiveGoalId, FALSE) = TRUE]_vars

\* C10: advancing from the last goal sets its progress entry to true and
\* returns to the checklist without moving the goal pointer; advancing from
\* any other goal moves the pointer forward by one and sets the learning
\* phase to information.
C10_AdvanceLastOrNext ==
    [][Advanced =>
        IF current_goal_index = NumGoals - 1
        THEN /\ DictGet(progress', ActiveGoalId, FALSE) = TRUE
             /\ page_mode' = "checklist"
             /\ current_goal_index' = current_goal_index
        ELSE /\ current_goal_index' = current_goal_index + 1
             /\ learning_phase' = "information"]_vars

\* --------------------------------------------------- claims on calls
\* the direct call is of the named method
Called(fn) == call # None /\ call[1].fn = fn
Returned(fn) == Called(fn) /\ result # None

\* generation cannot succeed: no client, no content, or the service call
\* or the JSON parsing raises
GenerationFails ==
    \/ ~openai_client
    \/ ~call[1].env.content
    \/ call[1].env.response.kind \in {"raise", "bad_json"}

\* C11: when generation cannot succeed, generate_adaptive_quiz_question
\* does not raise and returns the fallback: a multiple-choice question
\* built from the goal's description, with 4 options and correct_answer 3
C11_FallbackOnFailure ==
    (Returned("generate_adaptive_quiz_question") /\ GenerationFails) =>
        /\ "raised" \notin DOMAIN result[1]
        /\ QuestionType(result[1]) = "multiple_choice"
        /\ result[1].question =
             FallbackText(
                 learning_goals[call[1].goal_index + 1].description)
        /\ result[1].nopts = 4
        /\ result[1].correct_answer = 3

\* a reply that is not JSON was replaced by the fallback of the second goal
C11_Witness ==
    /\ Returned("generate_adaptive_quiz_question")
    /\ openai_client /\ call[1].env.content
    /\ call[1].env.response.kind = "bad_json"
    /\ call[1].goal_index = 1
    /\ result[1].question = FallbackText(learning_goals[2].description)

\* ------------------------------------------------ claims on the session
\* a question record with a prompt, options, and a correct index among them
WellFormed(q) ==
    /\ q.question # <<>>
    /\ q.nopts > 0
    /\ q.correct_answer \in 0..(q.nopts - 1)

\* C12: every question that becomes the session's current question is
\* well-formed (non-empty prompt, non-empty options, correct index in
\* bounds); a structurally invalid reply never becomes current_question
C12_QuestionsWellFormed ==
    \A g \in Sessions :
        Q(g).current_question # None =>
            WellFormed(Q(g).current_question[1])

\* the direct call evaluates an answer to a question of the given type
Evaluates(type) ==
    /\ Returned("evaluate_answer")
    /\ QuestionType(call[1].question_data) = type

\* the scoring service is called (client set, answer not blank) and the
\* call or the parsing of its reply raises
ScoringFails ==
    /\ openai_client
    /\ Strip(call[1].user_answer) # <<>>
    /\ call[1].response.kind \in {"raise", "bad_json"}

\* C13: when the scoring call for an open-ended answer fails,
\* evaluate_answer does not raise and returns is_correct = true, score = 75
C13_BenefitOfDoubt ==
    (Evaluates("open_ended") /\ ScoringFails) =>
        /\ "raised" \notin DOMAIN result[1]
        /\ result[1].is_correct = TRUE
        /\ result[1].score = 75

\* the service raised on the answer " a"
C13_Witness ==
    /\ Evaluates("open_ended")
    /\ ScoringFails
    /\ call[1].response.kind = "raise"
    /\ call[1].user_answer = <<" ", "a">>
    /\ result[1].is_correct

\* the expected and the submitted answers of a fill-in-the-blank call
Expected == call[1].question_data.correct_answers
Given == call[1].user_answer

\* blank i matches: the trimmed, lower-cased strings are equal
BlankMatches(i) == Lower(Strip(Given[i])) = Lower(Strip(Expected[i]))

\* C14: for a fill-in-the-blank question with n >= 1 blanks and n submitted
\* answers, is_correct holds iff every blank matches, and the score is
\* (number of matching blanks) / n * 100
C14_FillBlankScoring ==
    (Evaluates("fill_blank") /\ Len(Expected) >= 1
        /\ Len(Given) = Len(Expected)) =>
        LET n == Len(Expected)
            matching == Cardinality({i \in 1..n : BlankMatches(i)})
        IN /\ "raised" \notin DOMAIN result[1]
           /\ result[1].is_correct = (\A i \in 1..n : BlankMatches(i))
           /\ result[1].score.den > 0
           /\ result[1].score.num * n = matching * 100 * result[1].score.den

\* two blanks, one matched only after trimming and lower-casing, one missed
C14_Witness ==
    /\ Evaluates("fill_blank")
    /\ Len(Expected) = 2 /\ Len(Given) = 2
    /\ Given[1] # Expected[1] /\ BlankMatches(1)
    /\ ~BlankMatches(2)
    /\ ~result[1].is_correct
    /\ result[1].score = [num |-> 100, den |-> 2]

\* C15: update_goal_progress(user, goal_id, True) called twice in a row
\* leaves the progress dict exactly as it was after the first call, with
\* the goal's entry true
C15_UpdateIdempotent ==
    (Called("update_goal_progress") /\ call[1].completed
        /\ Len(result) = 2) =>
        /\ result[2] = result[1]
        /\ progress = result[1]
        /\ <<call[1].goal_id, TRUE>> \in progress

\* the second call has returned; the dict holds another entry as well
C15_Witness ==
    /\ Called("update_goal_progress") /\ call[1].completed
    /\ Len(result) = 2
    /\ <<call[1].goal_id, TRUE>> \in progress
    /\ Cardinality(progress) = 2

\* the fingerprints recorded so far in the session of goal g
AskedSoFar(g) == IF quiz[g] = None THEN <<>> ELSE Q(g).asked_questions

IsPrefix(a, b) == Len(a) <= Len(b) /\ SubSeq(b, 1, Len(a)) = a

\* the step generates a question in the session of goal g
Generated(g) ==
    /\ quiz'[g] # None
    /\ Len(quiz'[g][1].asked_questions) > Len(AskedSoFar(g))

\* C16: a fingerprint recorded in a session's asked list is never removed,
\* and every generation request of the session is given all fingerprints
\* recorded so far
C16_AskedOnlyGrows ==
    [][\A g \in DOMAIN quiz :
        /\ quiz[g] # None =>
             /\ quiz'[g] # None
             /\ IsPrefix(Q(g).asked_questions, quiz'[g][1].asked_questions)
        /\ Generated(g) =>
             /\ gen_request' # None
             /\ gen_request'[1].goal_index = g
             /\ gen_request'[1].asked_questions = AskedSoFar(g)]_vars

\* the third question of a session was requested with the two earlier
\* fingerprints
C16_Witness ==
    /\ gen_request # None
    /\ Len(gen_request[1].asked_questions) = 2
    /\ quiz[gen_request[1].goal_index] # None
    /\ Len(Q(gen_request[1].goal_index).asked_questions) = 3
    /\ IsPrefix(gen_request[1].asked_questions,
                Q(gen_request[1].goal_index).asked_questions)

\* C17: after the advancement action moves the pointer to the next goal,
\* the session of the new active goal is fresh (not yet created, or equal
\* to the initial quiz dict), whatever preceded the advancement
C17_FreshAfterAdvance ==
    [][(Advanced /\ current_goal_index' = current_goal_index + 1) =>
          \/ quiz'[current_goal_index'] = None
          \/ quiz'[current_goal_index'][1] = FreshQuiz]_vars

\* questions served so far in the session of goal g
Served(g) == Len(Q(g).asked_questions)

\* C18: a round is 3 different served questions: once the phase has left
\* initial, at least 3 questions were served, and once it has left
\* second_round for recommend_training, at least 6
C18_RoundOfThreeQuestions ==
    \A g \in Sessions :
        /\ Q(g).advancement_phase # "initial" => Served(g) >= 3
        /\ Q(g).advancement_phase = "recommend_training" => Served(g) >= 6

\* the session of goal g is in a round
InRound(g) == Q(g).advancement_phase \in {"initial", "second_round"}

\* the step changes the phase or the completion flag of the session
Transition(g) ==
    \/ quiz'[g][1].advancement_phase # Q(g).advancement_phase
    \/ quiz'[g][1].session_complete # Q(g).session_complete

\* C19: in phases initial and second_round the phase and session_complete
\* change only in the submission at which medium_questions_asked of the
\* round reaches 3; a submission that leaves fewer than 3 answers changes
\* neither, and the session goes on (feedback with "New Question" is shown)
C19_NoEarlyTransition ==
    [][\A g \in Sessions : InRound(g) =>
        /\ Transition(g) =>
             Submitted(g) /\ Q(g).medium_questions_asked + 1 = 3
        /\ (Submitted(g) /\ Q(g).medium_questions_asked + 1 < 3) =>
             /\ ~Transition(g)
             /\ PostFeedbackShown(quiz'[g][1])]_vars

\* two answers given in the second round, which is still open
C19_Witness ==
    \E g \in Sessions :
        /\ Q(g).advancement_phase = "second_round"
        /\ Q(g).medium_questions_asked = 2
        /\ Q(g).attempts = 5
        /\ ~Q(g).session_complete

\* C20: a session ends after at most 6 evaluated submissions: attempts
\* never exceeds 6, the sixth submission completes the session, and at
\* most 6 questions are generated in it
C20_SessionBounded ==
    \A g \in Sessions :
        /\ Q(g).attempts <= 6
        /\ Q(g).attempts = 6 => Q(g).session_complete
        /\ Served(g) <= 6

\* six questions served and answered, ending in recommend_training
C20_Witness ==
    \E g \in Sessions :
        /\ Q(g).attempts = 6
        /\ Served(g) = 6
        /\ Q(g).session_complete
        /\ Q(g).advancement_phase = "recommend_training"

\* ------------------------------------------------- progress-map calls
\* get_user_progress and update_goal_progress called in any order for one
\* user; call is the last call made, result what the last get returned
\* together with the goal ids ever set to completed
InitProgress ==
    \E file \in FilesWithGoals(1..MaxLines) :
        /\ CallState(file, FALSE)
        /\ NoProgress
        /\ call = None

ProgressResult(returned, ever_completed) ==
    Some([returned |-> returned, ever_completed |-> ever_completed])

EverCompleted == IF result = None THEN {} ELSE result[1].ever_completed

\* get_user_progress(user): the dict is created, all False, when absent
ProgressGet ==
    /\ call' = Some([fn |-> "get_user_progress"])
    /\ progress_present' = TRUE
    /\ progress' = IF progress_present THEN progress
                   ELSE InitialProgress(learning_goals)
    /\ result' = ProgressResult(progress', EverCompleted)
    /\ unchangedNav
    /\ UNCHANGED <<goals_file, learning_goals, openai_client, quiz,
                   checkbox_state, rerun, gen_request>>

\* update_goal_progress(user, goal_id, completed)
ProgressUpdate ==
    \E c \in UpdateCalls(CallerGoalIds(learning_goals)) :
        /\ call' = Some(c)
        /\ progress_present' = TRUE
        /\ progress' = UpdateGoalProgress(progress_present, progress,
                                          c.goal_id, c.completed)
        /\ result' = ProgressResult({},
                        IF c.completed THEN EverCompleted \cup {c.goal_id}
                        ELSE EverCompleted)
        /\ unchangedNav
        /\ UNCHANGED <<goals_file, learning_goals, openai_client, quiz,
                       checkbox_state, rerun, gen_request>>

NextProgress ==
    \/ ProgressGet
    \/ ProgressUpdate

SpecProgress == InitProgress /\ [][NextProgress]_vars

\* C21: after any sequence of get_user_progress and update_goal_progress
\* calls, the map returned by get_user_progress has an entry for every
\* loaded goal id, and every goal never set to completed maps to false
C21_ProgressCoversGoals ==
    Called("get_user_progress") =>
        \A i \in 1..NumGoals :
            /\ DictHas(result[1].returned, learning_goals[i].id)
            /\ learning_goals[i].id \notin result[1].ever_completed =>
                 <<learning_goals[i].id, FALSE>> \in result[1].returned

\* --------------------------------------------------------- statistics
\* the dict get_user_progress returns in the current state
UserProgress ==
    IF progress_present THEN progress ELSE InitialProgress(learning_goals)

\* get_progress_statistics; the percentage is kept as num / den
GetProgressStatistics ==
    LET total_goals == Len(learning_goals)
        completed_goals == Cardinality({e \in UserProgress : e[2]})
    IN [total_goals |-> total_goals,
        completed_goals |-> completed_goals,
        completion_percentage |->
            IF total_goals > 0
            THEN [num |-> completed_goals * 100, den |-> total_goals]
            ELSE [num |-> 0, den |-> 1],
        remaining_goals |-> total_goals - completed_goals]

\* loaded goals whose progress entry is true
CompletedGoals ==
    {i \in 1..NumGoals : <<learning_goals[i].id, TRUE>> \in UserProgress}

\* C22: get_progress_statistics reports total = number of loaded goals,
\* completed = number of loaded goals whose progress is true, percentage =
\* completed / total * 100 (0 without goals), 0 <= completed <= total and
\* remaining = total - completed >= 0
C22_Statistics ==
    LET stats == GetProgressStatistics
        done == Cardinality(CompletedGoals)
    IN /\ stats.total_goals = NumGoals
       /\ stats.completed_goals = done
       /\ stats.completion_percentage.num * (IF NumGoals > 0 THEN NumGoals ELSE 1)
            = done * 100 * stats.completion_percentage.den
       /\ 0 <= stats.completed_goals
       /\ stats.completed_goals <= stats.total_goals
       /\ stats.remaining_goals = stats.total_goals - stats.completed_goals
       /\ stats.remaining_goals >= 0

\* C23: the k-th loaded goal (k = 1..n) has number k and id goal_k, for
\* every goals file
C23_GoalsNumberedInOrder ==
    \A k \in 1..Len(learning_goals) :
        /\ learning_goals[k].number = k
        /\ learning_goals[k].id = StrKey(k)

\* the fields of a quiz dict that a rejected submission must leave alone
Counters(qs) ==
    <<qs.attempts, qs.correct_answers, qs.medium_questions_asked,
      qs.medium_questions_correct, qs.answered, qs.can_retry,
      qs.advancement_phase>>

C25_MediumAskedRange ==
    \A g \in Sessions :
        /\ Q(g).medium_questions_asked \in 0..3
        /\ InRound(g) => Q(g).medium_questions_asked <= 2
        /\ Q(g).medium_questions_asked = 3 => Q(g).session_complete

\* a session completed by the third answer of its second round
C25_Witness ==
    \E g \in Sessions :
        /\ Q(g).medium_questions_asked = 3
        /\ Q(g).attempts = 6
        /\ Q(g).advancement_phase = "ready_to_advance"
        /\ Q(g).session_complete

\* the session of the active goal after the step, and whether the feedback
\* stored by the step says "correct"
QSAfter == quiz'[current_goal_index][1]
Bonus == IF QSAfter.feedback[1].is_correct THEN 1 ELSE 0

\* the step is a submission that ends a failed initial round
EntersSecondRound ==
    /\ QS.advancement_phase = "initial"
    /\ QSAfter.advancement_phase = "second_round"

\* C26 as stated: every accepted submission, a retry included, increments
\* attempts and medium_questions_asked by exactly 1, and correct_answers
\* and medium_questions_correct by exactly 1 iff the feedback is correct
C26_Original ==
    [][SubmitAnswer =>
        /\ QSAfter.attempts = QS.attempts + 1
        /\ QSAfter.correct_answers = QS.correct_answers + Bonus
        /\ QSAfter.medium_questions_asked = QS.medium_questions_asked + 1
        /\ QSAfter.medium_questions_correct =
             QS.medium_questions_correct + Bonus]_vars

\* C26: every accepted submission, a retry included, increments attempts by
\* exactly 1 and correct_answers by 1 iff the feedback is correct; the two
\* medium counters are incremented in the same way, except in the
\* submission that ends a failed initial round, which leaves both at 0
C26_CountersPerSubmission ==
    [][SubmitAnswer =>
        /\ QSAfter.attempts = QS.attempts + 1
        /\ QSAfter.correct_answers = QS.correct_answers + Bonus
        /\ IF EntersSecondRound
           THEN /\ QS.medium_questions_asked + 1 = 3
                /\ QSAfter.medium_questions_asked = 0
                /\ QSAfter.medium_questions_correct = 0
           ELSE /\ QSAfter.medium_questions_asked =
                     QS.medium_questions_asked + 1
                /\ QSAfter.medium_questions_correct =
                     QS.medium_questions_correct + Bonus]_vars

\* one served question answered four times: the retries were counted, the
\* third ended the initial round, the fourth is the first of the second
C26_Witness ==
    \E g \in Sessions :
        /\ Q(g).advancement_phase = "second_round"
        /\ Served(g) = 1
        /\ Q(g).attempts = 4
        /\ Q(g).medium_questions_asked = 1

\* C27: in every non-complete session that has a current question, the
\* learner can submit or retry an answer or request a new question
C27_NoStuckSession ==
    \A g \in Sessions :
        (~Q(g).session_complete /\ Q(g).current_question # None) =>
            SubmitEnabled(Q(g)) \/ PostFeedbackShown(Q(g))

\* C28: with at least one goal loaded, the active goal pointer is always a
\* valid list index
C28_PointerInRange ==
    NumGoals > 0 =>
        /\ 0 <= current_goal_index
        /\ current_goal_index < NumGoals

\* the last goal is being trained and answered after an advancement from
\* the first
C28_Witness ==
    /\ NumGoals = 2
    /\ current_goal_index = NumGoals - 1
    /\ page_mode = "learning_flow" /\ learning_phase = "train"
    /\ IntKey(1) \in checkbox_state
    /\ quiz[1] # None /\ Q(1).attempts > 0

\* the plain "Next Learning Goal" buttons
NextGoalNavigation == NextGoalFromTraining \/ NextGoalAfterFeedback

\* progress entries that are true after the step and were not before
NewlyCompleted == {e \in progress' : e[2] /\ e \notin progress}

\* C29: the plain next-goal navigation changes only the pointer (+1) and
\* the learning phase (to information), leaving the progress map and every
\* quiz dict unchanged; a progress entry becomes true only through the
\* advancement action or a manual toggle
C29_NavigationFrame ==
    [][/\ NextGoalNavigation =>
            /\ current_goal_index' = current_goal_index + 1
            /\ learning_phase' = "information"
            /\ UNCHANGED <<progress_present, progress, checkbox_state,
                           quiz, page_mode>>
       /\ NewlyCompleted # {} => (Advanced \/ ToggleGoal)]_vars

\* the second goal was reached by navigation alone: the first has a quiz
\* dict, nothing was ever marked
C29_Witness ==
    /\ current_goal_index = 1
    /\ learning_phase = "information"
    /\ quiz[0] # None
    /\ checkbox_state = {}
    /\ progress_present
    /\ \A e \in progress : ~e[2]

\* the quiz dict of goal g before the step (created on first rendering)
Before(g) == IF quiz[g] = None THEN FreshQuiz ELSE Q(g)
After(g) == quiz'[g][1]

\* C30: a current question is cleared only by "New Question", which is
\* offered only while answered is true and changes only current_question,
\* answered and feedback; a question is generated only when there is none,
\* and the generation appends exactly one fingerprint; the fingerprints
\* change in no other step
C30_ReplacedOnlyAfterAnswer ==
    [][\A g \in DOMAIN quiz : quiz'[g] # None =>
        /\ (Before(g).current_question # None
              /\ After(g).current_question # Before(g).current_question) =>
             /\ NewQuestion
             /\ Before(g).answered
             /\ After(g) = [Before(g) EXCEPT !.current_question = None,
                                             !.answered = FALSE,
                                             !.feedback = None]
        /\ (Before(g).current_question = None
              /\ After(g).current_question # None) =>
             /\ Render
             /\ After(g).asked_questions =
                  Append(Before(g).asked_questions,
                         GetQuestionHash(After(g).current_question[1]))
             /\ After(g).attempts = Before(g).attempts
             /\ After(g).advancement_phase = Before(g).advancement_phase
        /\ After(g).asked_questions # Before(g).asked_questions =>
             Before(g).current_question = None]_vars

\* a second question was generated after the first was answered and
\* "New Question" was clicked
C30_Witness ==
    \E g \in Sessions :
        /\ Served(g) = 2
        /\ Q(g).current_question # None
        /\ ~Q(g).answered
        /\ Q(g).attempts = 1

====
